---- MODULE Spec2Model ----
(***************************************************************************)
(* SPS-EQ (structure-preserving signatures on equivalence classes) as      *)
(* implemented in src/src/sign.rs and src/src/verify.rs.                   *)
(*                                                                         *)
(* The bilinear group is modelled by discrete logarithms: the scalar field *)
(* is Z_Q for a small prime Q, a point of G1 (G2) is its logarithm to the  *)
(* base g1 (g2), an element of GT is its logarithm to the base e(g1, g2),  *)
(* so that e(a*g1, b*g2) = (a*b) * e(g1, g2).  Every cyclic group of prime *)
(* order Q with a non-degenerate bilinear map has exactly this shape.      *)
(*                                                                         *)
(* A caller is modelled by the variable pc: it builds a signing key,       *)
(* derives the public key, then either signs (or hand-builds) a signature  *)
(* and verifies / re-randomizes it, or encodes the public key, possibly    *)
(* truncates the bytes, and decodes them.                                  *)
(***************************************************************************)
EXTENDS Integers, Sequences, FiniteSets, TLC

VARIABLES pc, sk, pk, pk2, msg, sig, buf, ret

vars == <<pc, sk, pk, pk2, msg, sig, buf, ret>>

---------------------------------------------------------------------------
(* Bounds of the exploration *)

\* largest signature capacity (vector length) the caller asks for
MaxCap == 2
\* how many times the RNG may return zero in a row inside sign's sampling loop
MaxRetry == 1

\* scalars the caller imports into SigningKey::from
KeyScalars == {0, 2}
\* G1 points (as logarithms) the caller puts in messages
MsgPoints == {0, 1, 3}
\* group elements the caller puts in a hand-built signature
SigPoints == {0, 1, 2}

---------------------------------------------------------------------------
(* The pairing engine E: PairingEngine *)

\* order of the scalar field E::Fr (and of G1, G2, GT)
Q == 5

Fr == 0 .. (Q - 1)

\* E::G1Projective::zero()
G1Zero == 0
\* E::G1Projective::prime_subgroup_generator()
G1Generator == 1
\* E::G2Projective::prime_subgroup_generator()
G2Generator == 1

\* point *= scalar
Mul(p, s) == (p * s) % Q
\* point += point
Add(p, q) == (p + q) % Q
\* E::pairing(a, b)
Pairing(a, b) == (a * b) % Q
\* the group operation of GT (check_1 *= ...)
GtMul(a, b) == (a + b) % Q

\* Field::inverse: Option<Fr>, None (<<>>) for zero
Inverse(x) == IF x = 0 THEN <<>> ELSE <<CHOOSE y \in Fr : (x * y) % Q = 1>>

\* Option::expect
IsNone(o) == o = <<>>
Unwrap(o) == o[1]

Min(a, b) == IF a <= b THEN a ELSE b

\* all sequences over S of length 0..n
RECURSIVE SeqsUpTo(_, _)
SeqsUpTo(S, n) ==
    IF n = 0 THEN {<<>>}
    ELSE LET shorter == SeqsUpTo(S, n - 1)
         IN  shorter \cup {Append(s, x) : s \in {t \in shorter : Len(t) = n - 1}, x \in S}

---------------------------------------------------------------------------
(* Signing keys *)

\* struct SigningKey
MkSigningKey(cap, keys) == [signature_capacity |-> cap, secret_keys |-> keys]

\* SigningKey::new: vec![E::Fr::rand(rng); signature_capacity] evaluates
\* the sample once and clones it; rng is the stream of values the RNG returns
SigningKeyNew(signature_capacity, rng) ==
    MkSigningKey(signature_capacity, [i \in 1 .. signature_capacity |-> rng[1]])

\* SigningKey::from: Result<SigningKey, SpsEqSignatureError>
SigningKeyFrom(sks) ==
    [res |-> "Ok", key |-> MkSigningKey(Len(sks), sks)]

\* the loop of sign: sample, and sample again while the sample is zero
RECURSIVE SampleNonZero(_)
SampleNonZero(rng) ==
    IF rng[1] # 0 \/ Len(rng) = 1 THEN rng[1] ELSE SampleNonZero(Tail(rng))

\* Z after the loop over messages.iter_mut().zip(self)
RECURSIVE SumProducts(_, _, _)
SumProducts(messages, keys, n) ==
    IF n = 0 THEN G1Zero
    ELSE Add(SumProducts(messages, keys, n - 1), Mul(messages[n], keys[n]))

\* struct SpsEqSignature
MkSignature(Z, Y, Yp) == [Z |-> Z, Y |-> Y, Yp |-> Yp]

\* SigningKey::sign
Sign(key, messages, rng) ==
    LET randomness == SampleNonZero(rng)
        inv == Inverse(randomness)
        n == Min(Len(messages), Len(key.secret_keys))
        Z == SumProducts(messages, key.secret_keys, n)
    IN  IF IsNone(inv)
        THEN [res |-> "Panic", sig |-> MkSignature(0, 0, 0)]
        ELSE [res |-> "Ok",
              sig |-> MkSignature(Mul(Z, randomness),
                                  Mul(G1Generator, Unwrap(inv)),
                                  Mul(G2Generator, Unwrap(inv)))]

---------------------------------------------------------------------------
(* Public keys *)

\* struct PublicKey
MkPublicKey(cap, keys) == [signature_capacity |-> cap, public_keys |-> keys]

\* a derivation that leaves every point at the generator (the loop
\* *pkey *= skey left out)
PublicKeyFromNoMul(signing_key) ==
    MkPublicKey(signing_key.signature_capacity,
        [i \in 1 .. signing_key.signature_capacity |-> G2Generator])

\* impl From<&SigningKey> for PublicKey
PublicKeyFrom(signing_key) ==
    LET signature_capacity == signing_key.signature_capacity
    IN  MkPublicKey(signature_capacity,
            [i \in 1 .. signature_capacity |->
                IF i <= Len(signing_key.secret_keys)
                THEN Mul(G2Generator, signing_key.secret_keys[i])
                ELSE G2Generator])

\* impl PartialEq for PublicKey
PublicKeyEq(a, b) == a.public_keys = b.public_keys

\* check_1 after the loop over messages.iter().zip(public_keys).skip(1)
RECURSIVE PairingProduct(_, _, _)
PairingProduct(messages, keys, n) ==
    IF n = 1 THEN Pairing(messages[1], keys[1])
    ELSE GtMul(PairingProduct(messages, keys, n - 1), Pairing(messages[n], keys[n]))

\* PublicKey::verify after the capacity check (lines 29-47); pairings counts
\* the calls of E::pairing made; messages[0] and public_keys[0] are indexed
\* before the loop and panic on an empty slice
VerifyPairings(key, messages, signature) ==
    IF Len(messages) = 0 \/ Len(key.public_keys) = 0
    THEN [res |-> "Panic", pairings |-> 0]
    ELSE LET n == Min(Len(messages), Len(key.public_keys))
             check_1 == PairingProduct(messages, key.public_keys, n)
             expected_check_1 == Pairing(signature.Z, signature.Yp)
             check_2 == Pairing(signature.Y, G2Generator)
             expected_check_2 == Pairing(G1Generator, signature.Yp)
         IN  IF check_1 # expected_check_1
             THEN [res |-> "InvalidSignature", pairings |-> n + 1]
             ELSE IF check_2 # expected_check_2
             THEN [res |-> "InvalidSignature", pairings |-> n + 3]
             ELSE [res |-> "Ok", pairings |-> n + 3]

\* verify with the capacity check left out
VerifyNoCapacityCheck(key, messages, signature) ==
    VerifyPairings(key, messages, signature)

\* PublicKey::verify
Verify(key, messages, signature) ==
    IF key.signature_capacity # Len(messages)
    THEN [res |-> "UnmatchedCapacity", pairings |-> 0]
    ELSE VerifyPairings(key, messages, signature)

---------------------------------------------------------------------------
(* Re-randomization *)

\* SpsEqSignature::rnd_message
RndMessage(message, rnd_f) == [i \in 1 .. Len(message) |-> Mul(message[i], rnd_f)]

\* SpsEqSignature::rnd_signature; rnd_u.inverse().expect(..) panics on None
RndSignature(signature, rnd_u, rnd_f) ==
    LET rnd_u_inverse == Inverse(rnd_u)
    IN  IF IsNone(rnd_u_inverse)
        THEN [res |-> "Panic", sig |-> signature]
        ELSE [res |-> "Ok",
              sig |-> MkSignature(Mul(Mul(signature.Z, rnd_u), rnd_f),
                                  Mul(signature.Y, Unwrap(rnd_u_inverse)),
                                  Mul(signature.Yp, Unwrap(rnd_u_inverse)))]

\* SpsEqSignature::change_repr (in place): rnd_f is the first draw, rnd_u the
\* second; self is assigned only after rnd_signature has returned
ChangeRepr(signature, message, rnd_f, rnd_u) ==
    LET rnd_signature == RndSignature(signature, rnd_u, rnd_f)
    IN  IF rnd_signature.res = "Panic"
        THEN [res |-> "Panic", sig |-> signature, message |-> message]
        ELSE [res |-> "Ok", sig |-> rnd_signature.sig,
              message |-> RndMessage(message, rnd_f)]

\* SpsEqSignature::generate_new_repr (consuming): on a panic self is dropped
GenerateNewRepr(signature, message, rnd_f, rnd_u) ==
    LET rnd_signature == RndSignature(signature, rnd_u, rnd_f)
    IN  IF rnd_signature.res = "Panic"
        THEN [res |-> "Panic", sig |-> MkSignature(0, 0, 0), message |-> message]
        ELSE [res |-> "Ok", sig |-> rnd_signature.sig,
              message |-> RndMessage(message, rnd_f)]

---------------------------------------------------------------------------
(* Byte encoding of public keys *)

\* size of usize in bytes (64-bit target): the header bytes[..8]
UsizeBytes == 8
\* bytes ToBytes::write emits for one E::G2Projective: the coordinates
\* x, y, z of the projective point, 96 bytes each for BLS12-381
G2SerializedWidth == 288
\* a decoder chunking by the width of two coordinates (x, y) only
ChunkWidthAffine == (2 * G2SerializedWidth) \div 3
\* bytes[8..].chunks(288)
ChunkWidth == 288

\* usize::to_be_bytes
RECURSIVE BeBytes(_, _)
BeBytes(n, k) == IF k = 0 THEN <<>> ELSE Append(BeBytes(n \div 256, k - 1), n % 256)

\* usize::from_be_bytes
RECURSIVE FromBeBytes(_)
FromBeBytes(bytes) ==
    IF Len(bytes) = 0 THEN 0
    ELSE FromBeBytes(SubSeq(bytes, 1, Len(bytes) - 1)) * 256 + bytes[Len(bytes)]

\* ToBytes::write for a G2 point: an injective image of the point, here its
\* logarithm in the first byte and zeros after it
G2Write(point) == [i \in 1 .. G2SerializedWidth |-> IF i = 1 THEN point ELSE 0]

\* FromBytes::read for a G2 point: Err (<<>>) when the reader runs dry
G2Read(keys) == IF Len(keys) < G2SerializedWidth THEN <<>> ELSE <<keys[1] % Q>>

\* the bytes of all points of the key, in order
RECURSIVE WritePoints(_, _)
WritePoints(points, n) ==
    IF n = 0 THEN <<>> ELSE WritePoints(points, n - 1) \o G2Write(points[n])

\* PublicKey::to_bytes (writing into a Vec<u8> cannot fail)
ToBytes(key) ==
    [res |-> "Ok",
     bytes |-> BeBytes(key.signature_capacity, UsizeBytes)
               \o WritePoints(key.public_keys, Len(key.public_keys))]

\* slice::chunks(width) as a sequence of chunks, the last one possibly short
Chunks(bytes, width) ==
    LET n == (Len(bytes) + width - 1) \div width
    IN  [c \in 1 .. n |-> SubSeq(bytes, (c - 1) * width + 1, Min(c * width, Len(bytes)))]

\* PublicKey::from_bytes
FromBytes(bytes) ==
    IF Len(bytes) < UsizeBytes
    THEN [res |-> "Panic", key |-> MkPublicKey(0, <<>>)]
    ELSE LET signature_capacity == FromBeBytes(SubSeq(bytes, 1, UsizeBytes))
             chunks == Chunks(SubSeq(bytes, UsizeBytes + 1, Len(bytes)), ChunkWidth)
             reads == [c \in 1 .. Len(chunks) |-> G2Read(chunks[c])]
         IN  IF \E c \in 1 .. Len(reads) : IsNone(reads[c])
             THEN [res |-> "Panic", key |-> MkPublicKey(0, <<>>)]
             ELSE IF signature_capacity # Len(reads)
             THEN [res |-> "UnmatchedCapacity", key |-> MkPublicKey(0, <<>>)]
             ELSE [res |-> "Ok",
                   key |-> MkPublicKey(signature_capacity,
                               [c \in 1 .. Len(reads) |-> Unwrap(reads[c])])]

---------------------------------------------------------------------------
(* State machine *)

NoKey == MkSigningKey(0, <<>>)
NoPublicKey == MkPublicKey(0, <<>>)
NoSignature == MkSignature(0, 0, 0)

\* the outcome of the last call
Ret(op, res, arg, before, pairings) ==
    [op |-> op, res |-> res, arg |-> arg, before |-> before, pairings |-> pairings]

Init ==
    /\ pc = "start"
    /\ sk = NoKey
    /\ pk = NoPublicKey
    /\ pk2 = NoPublicKey
    /\ msg = <<>>
    /\ sig = NoSignature
    /\ buf = <<>>
    /\ ret = Ret("init", "Ok", <<>>, "none", 0)

\* let sk = SigningKey::new(l, rng)
NewKey ==
    /\ pc = "start"
    /\ \E l \in 0 .. MaxCap :
       \E rng \in [1 .. (IF l = 0 THEN 1 ELSE l) -> Fr] :
          /\ sk' = SigningKeyNew(l, rng)
          /\ ret' = Ret("new", "Ok", rng, "none", 0)
    /\ pc' = "keyed"
    /\ UNCHANGED <<pk, pk2, msg, sig, buf>>

\* let sk = SigningKey::from(sks)
ImportKey ==
    /\ pc = "start"
    /\ \E sks \in SeqsUpTo(KeyScalars, MaxCap) :
          LET r == SigningKeyFrom(sks)
          IN  /\ sk' = IF r.res = "Ok" THEN r.key ELSE sk
              /\ pc' = IF r.res = "Ok" THEN "keyed" ELSE "rejected"
              /\ ret' = Ret("from", r.res, sks, "none", 0)
    /\ UNCHANGED <<pk, pk2, msg, sig, buf>>

\* let pk = PublicKey::from(&sk)
DeriveKey ==
    /\ pc = "keyed"
    /\ pk' = PublicKeyFrom(sk)
    /\ pc' = "ready"
    /\ ret' = Ret("pk_from", "Ok", <<>>, "none", 0)
    /\ UNCHANGED <<sk, pk2, msg, sig, buf>>

\* the streams the RNG can feed sign's loop: zeros, then a non-zero value
SignStreams ==
    {s \in SeqsUpTo(Fr, MaxRetry + 1) :
        /\ Len(s) >= 1
        /\ s[Len(s)] # 0
        /\ \A i \in 1 .. (Len(s) - 1) : s[i] = 0}

\* let signature = sk.sign(&message, rng)
SignCall ==
    /\ pc = "ready"
    /\ \E m \in SeqsUpTo(MsgPoints, MaxCap), rng \in SignStreams :
          LET r == Sign(sk, m, rng)
          IN  /\ msg' = m
              /\ sig' = r.sig
              /\ pc' = IF r.res = "Ok" THEN "signed" ELSE "aborted"
              /\ ret' = Ret("sign", r.res, rng, "none", 0)
    /\ UNCHANGED <<sk, pk, pk2, buf>>

\* the caller builds SpsEqSignature { Z, Y, Yp } itself (the fields are pub)
Forge ==
    /\ pc = "ready"
    /\ \E m \in SeqsUpTo(MsgPoints, MaxCap), Z \in SigPoints, Y \in SigPoints, Yp \in SigPoints :
          /\ msg' = m
          /\ sig' = MkSignature(Z, Y, Yp)
    /\ pc' = "signed"
    /\ ret' = Ret("forge", "Ok", <<>>, "none", 0)
    /\ UNCHANGED <<sk, pk, pk2, buf>>

\* pk.verify(&message, &signature)
VerifyCall ==
    /\ pc \in {"signed", "changed"}
    /\ LET r == Verify(pk, msg, sig)
       IN  ret' = Ret("verify", r.res, <<>>, ret.before, r.pairings)
    /\ pc' = "verified"
    /\ UNCHANGED <<sk, pk, pk2, msg, sig, buf>>

\* let new_message = signature.change_repr(&message, rng)
ChangeReprCall ==
    /\ pc = "signed"
    /\ \E rnd_f \in Fr, rnd_u \in Fr :
          LET r == ChangeRepr(sig, msg, rnd_f, rnd_u)
          IN  /\ sig' = r.sig
              /\ msg' = r.message
              /\ pc' = IF r.res = "Ok" THEN "changed" ELSE "aborted"
              /\ ret' = Ret("change_repr", r.res, <<rnd_u, rnd_f>>,
                            Verify(pk, msg, sig).res, 0)
    /\ UNCHANGED <<sk, pk, pk2, buf>>

\* let (signature, message) = signature.generate_new_repr(&message, rng)
GenerateNewReprCall ==
    /\ pc = "signed"
    /\ \E rnd_f \in Fr, rnd_u \in Fr :
          LET r == GenerateNewRepr(sig, msg, rnd_f, rnd_u)
          IN  /\ sig' = r.sig
              /\ msg' = r.message
              /\ pc' = IF r.res = "Ok" THEN "changed" ELSE "aborted"
              /\ ret' = Ret("generate_new_repr", r.res, <<rnd_u, rnd_f>>,
                            Verify(pk, msg, sig).res, 0)
    /\ UNCHANGED <<sk, pk, pk2, buf>>

\* let bytes = pk.to_bytes()
ToBytesCall ==
    /\ pc = "ready"
    /\ LET r == ToBytes(pk)
       IN  /\ buf' = r.bytes
           /\ ret' = Ret("to_bytes", r.res, <<>>, "none", 0)
    /\ pc' = "encoded"
    /\ UNCHANGED <<sk, pk, pk2, msg, sig>>

\* the caller keeps only a strict prefix of the bytes: &bytes[..n]
Truncate ==
    /\ pc = "encoded"
    /\ \E n \in 0 .. (Len(buf) - 1) : buf' = SubSeq(buf, 1, n)
    /\ pc' = "truncated"
    /\ ret' = Ret("truncate", "Ok", <<>>, "none", 0)
    /\ UNCHANGED <<sk, pk, pk2, msg, sig>>

\* let pk2 = PublicKey::from_bytes(&bytes)
FromBytesCall ==
    /\ pc \in {"encoded", "truncated"}
    /\ LET r == FromBytes(buf)
       IN  /\ pk2' = r.key
           /\ pc' = IF r.res = "Panic" THEN "aborted"
                    ELSE IF r.res = "Ok" THEN "decoded" ELSE "rejected"
           /\ ret' = Ret("from_bytes", r.res, <<>>, "none", 0)
    /\ UNCHANGED <<sk, pk, msg, sig, buf>>

\* pk2.verify(&message, &signature) under the key from_bytes returned, on a
\* message and a signature the caller supplies
VerifyDecodedCall ==
    /\ pc = "decoded"
    /\ \E m \in SeqsUpTo(MsgPoints, MaxCap), Z \in SigPoints, Y \in SigPoints, Yp \in SigPoints :
          LET r == Verify(pk2, m, MkSignature(Z, Y, Yp))
          IN  /\ msg' = m
              /\ sig' = MkSignature(Z, Y, Yp)
              /\ ret' = Ret("verify_decoded", r.res, <<>>, "none", r.pairings)
    /\ pc' = "verified"
    /\ UNCHANGED <<sk, pk, pk2, buf>>

Next ==
    \/ NewKey
    \/ ImportKey
    \/ DeriveKey
    \/ SignCall
    \/ Forge
    \/ VerifyCall
    \/ ChangeReprCall
    \/ GenerateNewReprCall
    \/ ToBytesCall
    \/ Truncate
    \/ FromBytesCall
    \/ VerifyDecodedCall

Spec == Init /\ [][Next]_vars

---------------------------------------------------------------------------
(* Properties *)

\* the values of SpsEqSignatureError
ErrorValues == {"UnmatchedCapacity", "InvalidSignature", "InvalidSecretKeyVector", "IoErrorWrite"}

ReprOps == {"change_repr", "generate_new_repr"}

\* prod_{i = 1..n} e(M_i, X_i), the empty product being the unit of GT
RECURSIVE ProductOfPairings(_, _, _)
ProductOfPairings(M, X, n) ==
    IF n = 0 THEN 0
    ELSE (ProductOfPairings(M, X, n - 1) + M[n] * X[n]) % Q

\* prod_i e(M_i, X_i) = e(Z, Yp)
FirstEquation(key, M, s) ==
    ProductOfPairings(M, key.public_keys, Len(M)) = (s.Z * s.Yp) % Q

\* e(Y, g2) = e(g1, Yp)
SecondEquation(s) == s.Y % Q = s.Yp % Q

\* C1: a signature made by sk on a message of sk's capacity verifies under
\* the public key derived from sk, whatever key new/from returned and
\* whatever the RNG supplied.
C1_Correctness ==
    (ret.op = "sign" /\ Len(msg) = sk.signature_capacity)
        => (ret.res = "Ok" /\ Verify(PublicKeyFrom(sk), msg, sig).res = "Ok")

\* C2: when (msg, sig) verified before change_repr / generate_new_repr, the
\* call returns and the pair it leaves verifies, for every pair of
\* randomizers drawn.
C2_ChangeReprPreserves ==
    (ret.op \in ReprOps /\ ret.before = "Ok")
        => (ret.res = "Ok" /\ Verify(pk, msg, sig).res = "Ok")

\* C3: verify on a message whose length differs from the key's capacity
\* returns UnmatchedCapacity, whatever the signature, having evaluated no
\* pairing.
C3_CapacityCheck ==
    (ret.op = "verify" /\ Len(msg) # pk.signature_capacity)
        => (ret.res = "UnmatchedCapacity" /\ ret.pairings = 0)

\* C3 witness: verify was called with a non-empty message of the wrong
\* length under a key of capacity >= 1 and a signature whose second equation
\* holds.
C3_Witness ==
    /\ ret.op = "verify"
    /\ pk.signature_capacity >= 1
    /\ Len(msg) >= 1
    /\ Len(msg) # pk.signature_capacity
    /\ SecondEquation(sig)
    /\ sig.Y # 0

\* C4: on a message of the key's capacity verify returns Ok exactly when
\* both pairing equations hold, and InvalidSignature when one fails.
C4_VerifyDecidesEquations ==
    (ret.op = "verify" /\ Len(msg) = pk.signature_capacity)
        => ret.res = IF FirstEquation(pk, msg, sig) /\ SecondEquation(sig)
                     THEN "Ok" ELSE "InvalidSignature"

\* C5: decoding the bytes to_bytes produced returns Ok with a key equal to
\* the encoded one and of the same capacity, and the encoding is
\* 8 + l * w bytes long, w the decoder's chunk width.
C5_EncodingRoundTrip ==
    (ret.op = "from_bytes" /\ buf = ToBytes(pk).bytes)
        => /\ ret.res = "Ok"
           /\ PublicKeyEq(pk2, pk)
           /\ pk2.signature_capacity = pk.signature_capacity
           /\ Len(buf) = UsizeBytes + pk.signature_capacity * ChunkWidth

\* C5 witness: a key of two distinct points was encoded and decoded.
C5_Witness ==
    /\ ret.op = "from_bytes"
    /\ buf = ToBytes(pk).bytes
    /\ pk.signature_capacity = 2
    /\ pk.public_keys[1] # pk.public_keys[2]
    /\ pc = "decoded"

\* C6: from_bytes on a strict prefix of an encoding fails, and the failure
\* is an error value returned to the caller.
C6_TruncationRejected ==
    (ret.op = "from_bytes" /\ Len(buf) < Len(ToBytes(pk).bytes))
        => ret.res \in ErrorValues

\* C7: SigningKey::from returns InvalidSecretKeyVector exactly for the
\* vectors that are empty or contain zero, and Ok for the others.
C7_ImportRejectsBadVectors ==
    ret.op = "from"
        => ret.res = IF ret.arg = <<>> \/ (\E i \in 1 .. Len(ret.arg) : ret.arg[i] = 0)
                     THEN "InvalidSecretKeyVector" ELSE "Ok"

\* C8: SigningKey::new draws one sample per scalar: the i-th scalar of the
\* key is the i-th value the RNG returned, so the components can differ.
C8_IndependentSamples ==
    ret.op = "new"
        => \A i \in 1 .. sk.signature_capacity : sk.secret_keys[i] = ret.arg[i]

\* C9: every signing key new or from returned has signature_capacity equal
\* to the number of its scalars, and no zero scalar.
C9_SigningKeyInvariant ==
    pc \notin {"start", "rejected"}
        => /\ sk.signature_capacity = Len(sk.secret_keys)
           /\ \A i \in 1 .. Len(sk.secret_keys) : sk.secret_keys[i] # 0

\* C10: change_repr and generate_new_repr return normally for every pair of
\* randomizers the RNG can return (the inversion never meets zero).
C10_ChangeReprCannotFail ==
    ret.op \in ReprOps => (ret.res = "Ok" /\ ret.arg[1] # 0)


\* C11: after the in-place change_repr on a message of the key's capacity,
\* the signature verifies on the returned message exactly when the original
\* signature verified on the original message, for every pair of randomizers.
C11_ChangeReprKeepsValidity ==
    (ret.op = "change_repr" /\ Len(msg) = pk.signature_capacity)
        => (Verify(pk, msg, sig).res = "Ok" <=> ret.before = "Ok")

\* C12: the derived public key has the signing key's capacity, that many
\* points, X_i = x_i * g2, equals a second derivation from the same key and
\* equals the decode of its own encoding.
C12_KeyDerivation ==
    pc \notin {"start", "keyed", "rejected"}
        => /\ pk.signature_capacity = sk.signature_capacity
           /\ Len(pk.public_keys) = sk.signature_capacity
           /\ \A i \in 1 .. sk.signature_capacity :
                 pk.public_keys[i] = (sk.secret_keys[i] * G2Generator) % Q
           /\ PublicKeyEq(pk, PublicKeyFrom(sk))
           /\ (ret.op = "from_bytes" /\ buf = ToBytes(pk).bytes)
                 => PublicKeyEq(PublicKeyFrom(sk), pk2)

\* C12 witness: a key of two different scalars was derived, encoded and
\* decoded.
C12_Witness ==
    /\ ret.op = "from_bytes"
    /\ pc = "decoded"
    /\ sk.signature_capacity = 2
    /\ sk.secret_keys[1] # sk.secret_keys[2]
    /\ sk.secret_keys[1] # 0

\* C13: verify returns Ok or an error value, under every derived or decoded
\* key (capacity 0 included), for every message and signature.
C13_VerifyTotal ==
    ret.op \in {"verify", "verify_decoded"} => ret.res \in ({"Ok"} \cup ErrorValues)

====
